---- MODULE Spec2Model ----
(***************************************************************************)
(* Model of src/main.py: BibTeX entries rendered as citation labels.       *)
(*                                                                         *)
(* A Python str is a sequence of one-character strings, so that int(),    *)
(* str(), str.upper(), str.lower(), re.match and strptime are computed     *)
(* character by character.  A dict is a function from its keys (TLA+       *)
(* strings) to its values.  A call that may raise returns a record whose   *)
(* field exc names the exception ("" when the call returns normally).      *)
(***************************************************************************)
EXTENDS Integers, Sequences, FiniteSets, TLC

VARIABLES pc, n, index, entry, number, ret

vars == <<pc, n, index, entry, number, ret>>

(***************************************************************************)
(* Characters and the Python built-ins the program uses                    *)
(***************************************************************************)
Digits == {"0", "1", "2", "3", "4", "5", "6", "7", "8", "9"}

DigitChars == <<"0", "1", "2", "3", "4", "5", "6", "7", "8", "9">>

LowerChars == <<"a","b","c","d","e","f","g","h","i","j","k","l","m",
                "n","o","p","q","r","s","t","u","v","w","x","y","z">>

UpperChars == <<"A","B","C","D","E","F","G","H","I","J","K","L","M",
                "N","O","P","Q","R","S","T","U","V","W","X","Y","Z">>

\* the position of character c in the alphabet cs, 0 when it is not in it
IndexIn(cs, c) ==
    IF \E i \in 1..Len(cs) : cs[i] = c
    THEN CHOOSE i \in 1..Len(cs) : cs[i] = c
    ELSE 0

\* str.upper()
upper(s) ==
    [i \in 1..Len(s) |->
        IF IndexIn(LowerChars, s[i]) # 0 THEN UpperChars[IndexIn(LowerChars, s[i])] ELSE s[i]]

\* str.lower()
lower(s) ==
    [i \in 1..Len(s) |->
        IF IndexIn(UpperChars, s[i]) # 0 THEN LowerChars[IndexIn(UpperChars, s[i])] ELSE s[i]]

Returned(v) == [exc |-> "", val |-> v]

\* None: no str is equal to it, since a str is made of one-character strings
None == <<"None">>

\* the truth value of a value that is None or a str
Truthy(x) == x # None /\ x # <<>>

Raised(e) == [exc |-> e, val |-> <<>>]

RECURSIVE NatToStr(_)
NatToStr(k) ==
    IF k < 10 THEN <<DigitChars[k + 1]>>
    ELSE NatToStr(k \div 10) \o <<DigitChars[(k % 10) + 1]>>

\* str(int)
str(k) == IF k < 0 THEN <<"-">> \o NatToStr(0 - k) ELSE NatToStr(k)

RECURSIVE DigitsValue(_)
DigitsValue(s) ==
    IF s = <<>> THEN 0
    ELSE 10 * DigitsValue(SubSeq(s, 1, Len(s) - 1)) + (IndexIn(DigitChars, s[Len(s)]) - 1)

AllDigits(s) == s # <<>> /\ \A i \in 1..Len(s) : s[i] \in Digits

RECURSIVE strip(_)
strip(s) ==
    IF s # <<>> /\ Head(s) = " " THEN strip(Tail(s))
    ELSE IF s # <<>> /\ s[Len(s)] = " " THEN strip(SubSeq(s, 1, Len(s) - 1))
    ELSE s

\* int(str): surrounding blanks, an optional sign, decimal digits; ValueError otherwise
int(s) ==
    LET t == strip(s)
        signed == t # <<>> /\ Head(t) \in {"+", "-"}
        body == IF signed THEN Tail(t) ELSE t
    IN  IF ~AllDigits(body) THEN Raised("ValueError")
        ELSE IF signed /\ Head(t) = "-" THEN Returned(0 - DigitsValue(body))
        ELSE Returned(DigitsValue(body))

\* the longest prefix of s made of digits: what a greedy \d+ takes
RECURSIVE DigitPrefix(_)
DigitPrefix(s) ==
    IF s # <<>> /\ Head(s) \in Digits THEN <<Head(s)>> \o DigitPrefix(Tail(s)) ELSE <<>>

\* the pieces of s between the occurrences of character c
RECURSIVE Split(_, _)
Split(s, c) ==
    IF \E i \in 1..Len(s) : s[i] = c
    THEN LET i == CHOOSE j \in 1..Len(s) : s[j] = c /\ \A k \in 1..(j - 1) : s[k] # c
         IN  <<SubSeq(s, 1, i - 1)>> \o Split(SubSeq(s, i + 1, Len(s)), c)
    ELSE <<s>>

RECURSIVE Join(_, _)
Join(parts, sep) ==
    IF parts = <<>> THEN <<>>
    ELSE IF Len(parts) = 1 THEN parts[1]
    ELSE parts[1] \o sep \o Join(Tail(parts), sep)

(***************************************************************************)
(* Module-level tables                                                     *)
(***************************************************************************)
UtrechtLawReview == <<"U","t","r","e","c","h","t"," ","L","a","w"," ","R","e","v","i","e","w">>

abbreviations ==
    LET keys == {
          <<"C","r","i","m","e",","," ","L","a","w"," ","a","n","d"," ","S","o","c","i","a","l"," ","C","h","a","n","g","e">>,
          <<"N","e","w"," ","Y","o","r","k"," ","L","a","w"," ","S","c","h","o","o","l"," ","L","a","w"," ","R","e","v","i","e","w">>,
          UtrechtLawReview }
    IN  [k \in keys |->
          IF k = UtrechtLawReview THEN <<"U","t","r","e","c","h","t"," ","L"," ","R","e","v">>
          ELSE IF k[1] = "C" THEN <<"C","L","&","S","C">>
          ELSE <<"N",".","Y",".","U","."," ","L","."," ","R","e","v",".">>]

custom_suffixes == [k \in {1, 2, 3} |-> <<<<"s","t">>, <<"n","d">>, <<"r","d">>>>[k]]

MonthCodes == << <<"J","A","N">>, <<"F","E","B">>, <<"M","A","R">>, <<"A","P","R">>,
                 <<"M","A","Y">>, <<"J","U","N">>, <<"J","U","L">>, <<"A","U","G">>,
                 <<"S","E","P">>, <<"O","C","T">>, <<"N","O","V">>, <<"D","E","C">> >>

\* strftime('%B')
MonthNames == << <<"J","a","n","u","a","r","y">>, <<"F","e","b","r","u","a","r","y">>,
                 <<"M","a","r","c","h">>, <<"A","p","r","i","l">>, <<"M","a","y">>,
                 <<"J","u","n","e">>, <<"J","u","l","y">>, <<"A","u","g","u","s","t">>,
                 <<"S","e","p","t","e","m","b","e","r">>, <<"O","c","t","o","b","e","r">>,
                 <<"N","o","v","e","m","b","e","r">>, <<"D","e","c","e","m","b","e","r">> >>

\* the placeholder strings
PH_AUTHOR == <<"<","A","U","T","H","O","R",">">>
PH_TITLE == <<"<","T","I","T","L","E",">">>
PH_URL == <<"<","U","R","L",">">>
PH_JOURNAL == <<"<","J","O","U","R","N","A","L",">">>
PH_PLACE == <<"<","P","L","A","C","E",">">>
PH_YEAR == <<"<","Y","E","A","R",">">>
PH_VOLUME == <<"<","V","O","L","U","M","E",">">>
PH_ISSUE == <<"<","I","S","S","U","E",">">>
PH_DOCUMENT_TYPE == <<"<","D","O","C","U","M","E","N","T"," ","T","Y","P","E",">">>
PH_PUBLISHER == <<"<","P","U","B","L","I","S","H","E","R",">">>
PH_EDITION == <<"<","E","D","I","T","I","O","N",">">>
PH_FIRST_PAGE == <<"<","F","I","R","S","T"," ","P","A","G","E",">">>
PH_WRITTEN_DATE == <<"<","W","R","I","T","T","E","N"," ","D","A","T","E",">">>
PH_ACCESS_DATE == <<"<","A","C","C","E","S","S"," ","D","A","T","E",">">>

(***************************************************************************)
(* Field derivation helpers                                                *)
(***************************************************************************)
get_suffix(num) ==
    LET last_number == num % 10
    IN  IF last_number \in DOMAIN custom_suffixes THEN custom_suffixes[last_number]
        ELSE <<"t","h">>

\* re.match(r'(?P<firstpage>\d+)-(?P<lastpage>\d+)', pages): anchored at the start only
get_first_page_label(e, default_value) ==
    IF "pages" \notin DOMAIN e THEN default_value
    ELSE LET pages == e["pages"]
             firstpage == DigitPrefix(pages)
             rest == SubSeq(pages, Len(firstpage) + 1, Len(pages))
             match == /\ firstpage # <<>>
                      /\ Len(rest) >= 2 /\ rest[1] = "-" /\ rest[2] \in Digits
         IN  IF match THEN firstpage ELSE default_value

get_number_order_label(num) ==
    LET last_number == num % 10
    IN  str(num) \o get_suffix(last_number)

\* a variant that forgets the placeholder test
get_volume_issue_label_NoSentinel(e) ==
    IF Truthy(e["issue"]) THEN e["volume"] \o <<"/">> \o e["issue"] ELSE e["volume"]

get_volume_issue_label(e) ==
    LET issue_opt == IF e["issue"] # PH_ISSUE THEN e["issue"] ELSE None
    IN  IF Truthy(issue_opt)
        THEN e["volume"] \o <<"/">> \o issue_opt
        ELSE e["volume"]

(***************************************************************************)
(* Dates                                                                   *)
(***************************************************************************)
IsLeap(y) == (y % 4 = 0 /\ y % 100 # 0) \/ y % 400 = 0

DaysInMonth(y, m) ==
    IF m = 2 THEN (IF IsLeap(y) THEN 29 ELSE 28)
    ELSE IF m \in {4, 6, 9, 11} THEN 30
    ELSE 31

\* strptime's %m: 1[0-2]|0[1-9]|[1-9]
MatchesMonthDirective(p) ==
    /\ AllDigits(p) /\ Len(p) \in {1, 2}
    /\ DigitsValue(p) \in 1..12

\* strptime's %d: 3[0-1]|[1-2]\d|0[1-9]|[1-9]| [1-9]
MatchesDayDirective(p) ==
    \/ AllDigits(p) /\ Len(p) \in {1, 2} /\ DigitsValue(p) \in 1..31
    \/ Len(p) = 2 /\ p[1] = " " /\ p[2] \in (Digits \ {"0"})

\* datetime.datetime.strptime(date_text, '%Y-%m-%d'): %Y is exactly four digits,
\* %m and %d take one or two; the whole text must be consumed and must name a
\* day of the calendar (datetime's years start at 1)
parse_date(date_text) ==
    LET parts == Split(date_text, "-")
    IN  IF /\ Len(parts) = 3
           /\ AllDigits(parts[1]) /\ Len(parts[1]) = 4
           /\ MatchesMonthDirective(parts[2])
           /\ MatchesDayDirective(parts[3])
        THEN LET y == DigitsValue(parts[1])
                 m == DigitsValue(parts[2])
                 d == DigitsValue(strip(parts[3]))
             IN  IF y >= 1 /\ d <= DaysInMonth(y, m)
                 THEN Returned([year |-> y, month |-> m, day |-> d])
                 ELSE Raised("ValueError")
        ELSE Raised("ValueError")

latex_month_label_to_index(label) ==
    IF \E i \in 1..12 : MonthCodes[i] = upper(label)
    THEN Returned(CHOOSE i \in 1..12 : MonthCodes[i] = upper(label))
    ELSE Raised("KeyError")

get_date_label(date_time) ==
    LET day_label == get_number_order_label(date_time.day)
        month_label == MonthNames[date_time.month]
        year_label == str(date_time.year)
    IN  Join(<<day_label, month_label, year_label>>, <<" ">>)

\* a variant that appends the year without testing it
DateComponents_YearAlways(day_label, month_label, year_label) ==
    (IF Truthy(day_label) THEN <<day_label>> ELSE <<>>)
    \o (IF Truthy(month_label) THEN <<month_label>> ELSE <<>>)
    \o <<year_label>>

\* lines 89-95: the labels that are truthy, in this order
DateComponents(day_label, month_label, year_label) ==
    (IF Truthy(day_label) THEN <<day_label>> ELSE <<>>)
    \o (IF Truthy(month_label) THEN <<month_label>> ELSE <<>>)
    \o (IF Truthy(year_label) THEN <<year_label>> ELSE <<>>)

get_written_date_label(e, default_value) ==
    IF "year" \in DOMAIN e
    THEN LET year_label == e["year"]
             has_day == "day" \in DOMAIN e
             day_number == IF has_day THEN int(e["day"]) ELSE Returned(0)
             has_month == "month" \in DOMAIN e
             month_index == IF has_month THEN latex_month_label_to_index(e["month"])
                            ELSE Returned(1)
         IN  IF day_number.exc # "" THEN Raised(day_number.exc)
             ELSE IF month_index.exc # "" THEN Raised(month_index.exc)
             ELSE LET day_label == IF has_day THEN get_number_order_label(day_number.val)
                                   ELSE None
                      month_label == IF has_month THEN MonthNames[month_index.val] ELSE None
                      date_components == DateComponents(day_label, month_label, year_label)
                  IN  IF date_components # <<>>
                      THEN Returned(Join(date_components, <<" ">>))
                      ELSE Returned(default_value)
    ELSE Returned(default_value)

\* a variant that falls back to the default when the date does not parse
get_access_date_label_BestEffort(e, default_value) ==
    IF "urldate" \in DOMAIN e /\ parse_date(e["urldate"]).exc = ""
    THEN Returned(get_date_label(parse_date(e["urldate"]).val))
    ELSE Returned(default_value)

get_access_date_label(e, default_value) ==
    IF "urldate" \in DOMAIN e
    THEN LET access_date == parse_date(e["urldate"])
         IN  IF access_date.exc # "" THEN Raised(access_date.exc)
             ELSE Returned(get_date_label(access_date.val))
    ELSE Returned(default_value)

get_journal_label(e) ==
    IF e["journal"] \in DOMAIN abbreviations THEN abbreviations[e["journal"]]
    ELSE e["journal"]

append_first_page(label, e) ==
    (IF e["first-page"] # PH_FIRST_PAGE THEN label \o <<" ">> \o e["first-page"] ELSE label)
    \o <<".">>

(***************************************************************************)
(* Dicts                                                                   *)
(***************************************************************************)
\* d[key] = value
SetItem(d, key, value) ==
    [k \in (DOMAIN d) \cup {key} |-> IF k = key THEN value ELSE d[k]]

\* a variant that rebuilds target from the matching keys alone
overwrite_entries_OnlyMatching(target, source) ==
    [target |-> [key \in (DOMAIN target) \cap (DOMAIN source) |-> source[key]],
     source |-> source]

\* a variant with the roles of the two dicts exchanged in the assignment
overwrite_entries_WritesSource(target, source) ==
    [target |-> target,
     source |-> [key \in DOMAIN source |->
                    IF key \in DOMAIN target THEN target[key] ELSE source[key]]]

\* Both dicts as the call leaves them: only target is assigned to.
overwrite_entries(target, source) ==
    [target |-> [key \in DOMAIN target |->
                    IF key \in DOMAIN source THEN source[key] ELSE target[key]],
     source |-> source]

\* str.format(**d) of a template given as its parts, literal text Lit(text) and
\* replacement fields Ref(key); KeyError when d lacks a key
Lit(text) == [ref |-> "", lit |-> text]

Ref(key) == [ref |-> key, lit |-> <<>>]

TemplateKeys(template) ==
    {template[i].ref : i \in {j \in 1..Len(template) : template[j].ref # ""}}

RECURSIVE Substitute(_, _)
Substitute(template, d) ==
    IF template = <<>> THEN <<>>
    ELSE (IF Head(template).ref # "" THEN d[Head(template).ref] ELSE Head(template).lit)
         \o Substitute(Tail(template), d)

format(template, d) ==
    IF TemplateKeys(template) \subseteq DOMAIN d THEN Returned(Substitute(template, d))
    ELSE Raised("KeyError")

(***************************************************************************)
(* Entry-type formatters.  A call's outcome: the exception raised ("" for  *)
(* none), the label returned, the local format_entry and the argument dict *)
(* as the call leaves them, and whether str.format was reached.            *)
(***************************************************************************)
Outcome(exc, label, format_entry, arg, rendered) ==
    [exc |-> exc, label |-> label, format_entry |-> format_entry, arg |-> arg,
     rendered |-> rendered]

\* The global name `entry` before the loop of __main__ has bound it.
Unbound == [k \in {"<unbound>"} |-> <<>>]

NewsArticleDefaults ==
    [author |-> PH_AUTHOR, title |-> PH_TITLE, url |-> PH_URL, journal |-> PH_JOURNAL,
     place |-> PH_PLACE, year |-> PH_YEAR]

NewsArticleTemplate ==
    <<Ref("author"), Lit(<<","," ","'">>), Ref("title"),
      Lit(<<"'"," ","\\","t","e","x","t","i","t","{">>), Ref("journal"),
      Lit(<<"}"," ","(">>), Ref("place"), Lit(<<","," ">>), Ref("written-date-label"),
      Lit(<<")">>)>>

\* a variant that reads the pages of the raw entry, as format_article_entry does
NewsFirstPageSource_ArticleEntry(article_entry, format_entry) == article_entry

\* Line 131 passes format_entry, not article_entry, to get_first_page_label.
NewsFirstPageSource(article_entry, format_entry) == format_entry

format_news_article_entry(article_entry) ==
    LET ow == overwrite_entries(NewsArticleDefaults, article_entry)
        fe1 == SetItem(ow.target, "first-page",
                       get_first_page_label(NewsFirstPageSource(ow.source, ow.target),
                                            PH_FIRST_PAGE))
        written == get_written_date_label(ow.source, PH_WRITTEN_DATE)
    IN  IF written.exc # "" THEN Outcome(written.exc, <<>>, fe1, ow.source, FALSE)
        ELSE LET fe2 == SetItem(fe1, "written-date-label", written.val)
                 label == format(NewsArticleTemplate, fe2)
             IN  IF label.exc # "" THEN Outcome(label.exc, <<>>, fe2, ow.source, TRUE)
                 ELSE Outcome("", append_first_page(label.val, fe2), fe2, ow.source, TRUE)

ArticleDefaults ==
    [author |-> PH_AUTHOR, title |-> PH_TITLE, volume |-> PH_VOLUME, issue |-> PH_ISSUE,
     documenttype |-> PH_DOCUMENT_TYPE, url |-> PH_URL, journal |-> PH_JOURNAL,
     year |-> PH_YEAR]

PublishedTemplate ==
    <<Ref("author"), Lit(<<","," ","'">>), Ref("title"), Lit(<<"'"," ","(">>), Ref("year"),
      Lit(<<")"," ">>), Ref("volume-issue-label"), Lit(<<","," ">>), Ref("journal-label")>>

OnlineTemplate ==
    <<Ref("author"), Lit(<<","," ","'">>), Ref("title"), Lit(<<"'"," ","(">>),
      Ref("documenttype"), Lit(<<","," ">>), Ref("written-date-label"),
      Lit(<<")"," ","<">>), Ref("url"),
      Lit(<<">"," ","a","c","c","e","s","s","e","d"," ">>), Ref("access-date-label"),
      Lit(<<".">>)>>

NotImplemented == "Exception('Not implemented')"

\* a variant that tests for a url first
ArticleBranch_OnlineFirst(is_published_article, is_online_article) ==
    IF is_online_article THEN "online"
    ELSE IF is_published_article THEN "published"
    ELSE "neither"

\* lines 162-170: the branch taken
ArticleBranch(is_published_article, is_online_article) ==
    IF is_published_article THEN "published"
    ELSE IF is_online_article THEN "online"
    ELSE "neither"

\* The keys the helpers called at lines 154-155 subscript (lines 110, 37, 41): a
\* dict without one of them makes the subscript raise KeyError.
SubscriptedKeys == {"journal", "issue", "volume"}

format_article_entry(article_entry) ==
    LET ow == overwrite_entries(ArticleDefaults, article_entry)
        arg == ow.source
        fe1 == IF "number" \in DOMAIN arg THEN SetItem(ow.target, "issue", arg["number"])
               ELSE ow.target
        fe2 == SetItem(fe1, "first-page", get_first_page_label(arg, PH_FIRST_PAGE))
        fe3 == SetItem(fe2, "journal-label", get_journal_label(fe2))
        fe4 == SetItem(fe3, "volume-issue-label", get_volume_issue_label(fe3))
        written == get_written_date_label(arg, PH_WRITTEN_DATE)
        access == get_access_date_label(arg, PH_ACCESS_DATE)
    IN  IF ~(SubscriptedKeys \subseteq DOMAIN fe2)
        THEN Outcome("KeyError", <<>>, fe2, arg, FALSE)
        ELSE IF written.exc # "" THEN Outcome(written.exc, <<>>, fe4, arg, FALSE)
        ELSE IF access.exc # ""
        THEN Outcome(access.exc, <<>>, SetItem(fe4, "written-date-label", written.val),
                     arg, FALSE)
        ELSE LET fe6 == SetItem(SetItem(fe4, "written-date-label", written.val),
                                "access-date-label", access.val)
                 is_online_article == "url" \in DOMAIN arg
                 is_published_article == fe6["journal"] # PH_JOURNAL
                 branch == ArticleBranch(is_published_article, is_online_article)
             IN  IF branch = "published"
                 THEN LET label == format(PublishedTemplate, fe6)
                      IN  IF label.exc # "" THEN Outcome(label.exc, <<>>, fe6, arg, TRUE)
                          ELSE Outcome("", append_first_page(label.val, fe6), fe6, arg, TRUE)
                 ELSE IF branch = "online"
                 THEN LET label == format(OnlineTemplate, fe6)
                      IN  Outcome(label.exc, label.val, fe6, arg, TRUE)
                 ELSE Outcome(NotImplemented, <<>>, fe6, arg, FALSE)

BookDefaults ==
    [author |-> PH_AUTHOR, title |-> PH_TITLE, publisher |-> PH_PUBLISHER, year |-> PH_YEAR]

BookTemplate ==
    <<Ref("author"), Lit(<<","," ","\\","t","e","x","t","i","t","{">>), Ref("title"),
      Lit(<<"}"," ","(">>), Ref("edition"), Lit(<<","," ">>), Ref("publisher"),
      Lit(<<","," ">>), Ref("year"), Lit(<<")">>)>>

\* a variant that reads the seeded copy, as format_news_article_entry does
BookFirstPageSource_FormatEntry(book_entry, format_entry, global_entry) == format_entry

\* Line 183 reads the module-level name `entry`, not the parameter: global_entry is
\* the value of that name when the call is made (NameError while it is unbound).
BookFirstPageSource(book_entry, format_entry, global_entry) == global_entry

format_book_entry(book_entry) ==
    LET ow == overwrite_entries(BookDefaults, book_entry)
        arg == ow.source
        edition == IF "edition" \in DOMAIN arg THEN int(arg["edition"]) ELSE Returned(0)
    IN  IF edition.exc # "" THEN Outcome(edition.exc, <<>>, ow.target, arg, FALSE)
        ELSE LET fe1 == SetItem(ow.target, "edition",
                                IF "edition" \in DOMAIN arg
                                THEN get_number_order_label(edition.val)
                                ELSE PH_EDITION)
                 source == BookFirstPageSource(arg, fe1, entry)
             IN  IF source = Unbound THEN Outcome("NameError", <<>>, fe1, arg, FALSE)
                 ELSE LET fe2 == SetItem(fe1, "first-page",
                                         get_first_page_label(source, PH_FIRST_PAGE))
                          label == format(BookTemplate, fe2)
                      IN  IF label.exc # "" THEN Outcome(label.exc, <<>>, fe2, arg, TRUE)
                          ELSE Outcome("", append_first_page(label.val, fe2), fe2, arg, TRUE)

(***************************************************************************)
(* Inputs: the dicts bibtexparser hands to the loop.  Every entry carries  *)
(* its type under 'ENTRYTYPE'.                                             *)
(***************************************************************************)
MaxEntries == 2

MaxFields == 3

MaxNumber == 33

EmptyDict == [k \in {} |-> <<>>]

\* every dict with at most k keys, all among fields, each with one of its values
RECURSIVE DictsOver(_, _, _)
DictsOver(fields, values, k) ==
    IF fields = {} \/ k = 0 THEN {EmptyDict}
    ELSE LET f == CHOOSE x \in fields : TRUE
         IN  DictsOver(fields \ {f}, values, k)
             \cup {SetItem(d, f, v) : d \in DictsOver(fields \ {f}, values, k - 1),
                                      v \in values[f]}

BookTag == <<"b","o","o","k">>
ArticleTag == <<"a","r","t","i","c","l","e">>
NewsArticleTag == <<"n","e","w","s","a","r","t","i","c","l","e">>

Fields == {"author", "title", "url", "journal", "place", "year", "volume", "issue",
           "number", "documenttype", "urldate", "day", "month", "pages", "publisher",
           "edition"}

FieldValues ==
    [f \in Fields |->
        CASE f = "author" -> {<<"D","o","e">>}
          [] f = "title" -> {<<"O","n"," ","X">>}
          [] f = "url" -> {<<"u",".","e","u">>}
          [] f = "journal" -> {UtrechtLawReview, <<"J">>, PH_JOURNAL}
          [] f = "place" -> {<<"R","o","m","e">>}
          [] f = "year" -> {<<"2","0","2","1">>, <<>>}
          [] f = "volume" -> {<<"1","0">>}
          [] f = "issue" -> {<<"3">>, <<>>}
          [] f = "number" -> {<<"2">>}
          [] f = "documenttype" -> {<<"W","P">>}
          [] f = "urldate" -> {<<"2","0","2","1","-","0","2","-","1","1">>,
                               <<"2","0","2","1","-","2","-","3">>,
                               <<"2","0","2","1","-","0","2","-","3","0">>,
                               <<"1","1","/","0","2","/","2","0","2","1">>}
          [] f = "day" -> {<<"3">>, <<"1","1">>, <<"x">>}
          [] f = "month" -> {<<"j","a","n">>, <<"x","y","z">>}
          [] f = "pages" -> {<<"4","5","-","6","0">>, <<"4","5">>}
          [] f = "publisher" -> {<<"A","c","m","e">>}
          [] f = "edition" -> {<<"2">>, <<"x">>}]

\* the end-to-end examples
ExampleBook ==
    [author |-> <<"D","o","e">>, title |-> <<"A"," ","B","o","o","k">>,
     publisher |-> <<"A","c","m","e">>, year |-> <<"2","0","1","9">>, edition |-> <<"2">>]

ExampleArticle ==
    [author |-> <<"S","m","i","t","h">>, title |-> <<"O","n"," ","X">>,
     journal |-> UtrechtLawReview, volume |-> <<"1","0">>, number |-> <<"2">>,
     year |-> <<"2","0","2","1">>, pages |-> <<"4","5","-","6","0">>]

CallTags == {BookTag, ArticleTag, NewsArticleTag}

CallInputs ==
    {SetItem(d, "ENTRYTYPE", t) :
        d \in DictsOver(Fields, FieldValues, MaxFields) \cup {ExampleBook, ExampleArticle},
        t \in CallTags}

DriverFields == {"edition", "pages", "journal", "url"}

DriverValues ==
    [f \in DriverFields |->
        CASE f = "edition" -> {<<"2">>, <<"x">>}
          [] f = "pages" -> {<<"4","5","-","6","0">>, <<"7">>}
          [] f = "journal" -> {<<"J">>}
          [] f = "url" -> {<<"u",".","e","u">>}]

DriverTags == {BookTag, <<"A","r","t","i","c","l","e">>, NewsArticleTag,
               <<"m","i","s","c">>}

DriverInputs ==
    {SetItem(d, "ENTRYTYPE", t) :
        d \in DictsOver(DriverFields, DriverValues, Cardinality(DriverFields))
              \cup {ExampleBook, ExampleArticle},
        t \in DriverTags}

(***************************************************************************)
(* __main__: the loop over bib_database.entries                            *)
(***************************************************************************)
entry_type_callbacks == {BookTag, ArticleTag, NewsArticleTag}

entry_type == lower(entry["ENTRYTYPE"])

NoCall == [called |-> "", exc |-> "", label |-> <<>>, format_entry |-> EmptyDict,
           arg |-> EmptyDict, rendered |-> FALSE, printed |-> <<>>]

\* what one iteration did: the callback called ("" for none), its outcome, and the
\* line printed (none when the callback raised)
Called(name, outcome) ==
    [called |-> name, exc |-> outcome.exc, label |-> outcome.label,
     format_entry |-> outcome.format_entry, arg |-> outcome.arg,
     rendered |-> outcome.rendered,
     printed |-> IF outcome.exc = "" THEN outcome.label ELSE <<>>]

\* an uncaught exception ends the program
After(outcome) == IF outcome.exc = "" THEN "loop" ELSE "crashed"

Init ==
    /\ pc = "loop"
    /\ n \in 0..MaxEntries
    /\ index = 0
    /\ entry = Unbound
    /\ number = 0
    /\ ret = NoCall

\* for index, entry in enumerate(bib_database.entries, start=1)
NextEntry ==
    /\ pc = "loop"
    /\ index < n
    /\ \E e \in DriverInputs : entry' = e
    /\ index' = index + 1
    /\ pc' = "body"
    /\ ret' = NoCall
    /\ UNCHANGED <<n, number>>

\* a variant that leaves the loop instead of continuing it
Unsupported_Break ==
    /\ pc = "body"
    /\ entry_type \notin entry_type_callbacks
    /\ ret' = [NoCall EXCEPT !.printed =
                  <<"U","n","s","u","p","p","o","r","t","e","d"," ","e","n","t","r","y",
                    " ","t","y","p","e"," ">> \o entry_type]
    /\ pc' = "done"
    /\ UNCHANGED <<n, index, entry, number>>

Unsupported ==
    /\ pc = "body"
    /\ entry_type \notin entry_type_callbacks
    /\ ret' = [NoCall EXCEPT !.printed =
                  <<"U","n","s","u","p","p","o","r","t","e","d"," ","e","n","t","r","y",
                    " ","t","y","p","e"," ">> \o entry_type]
    /\ pc' = "loop"
    /\ UNCHANGED <<n, index, entry, number>>

DispatchBook ==
    /\ pc = "body"
    /\ entry_type = BookTag
    /\ LET outcome == format_book_entry(entry)
       IN  /\ ret' = Called("format_book_entry", outcome)
           /\ entry' = outcome.arg
           /\ pc' = After(outcome)
    /\ UNCHANGED <<n, index, number>>

DispatchArticle ==
    /\ pc = "body"
    /\ entry_type = ArticleTag
    /\ LET outcome == format_article_entry(entry)
       IN  /\ ret' = Called("format_article_entry", outcome)
           /\ entry' = outcome.arg
           /\ pc' = After(outcome)
    /\ UNCHANGED <<n, index, number>>

DispatchNewsArticle ==
    /\ pc = "body"
    /\ entry_type = NewsArticleTag
    /\ LET outcome == format_news_article_entry(entry)
       IN  /\ ret' = Called("format_news_article_entry", outcome)
           /\ entry' = outcome.arg
           /\ pc' = After(outcome)
    /\ UNCHANGED <<n, index, number>>

\* the iterator is exhausted
EndOfEntries ==
    /\ pc = "loop"
    /\ index = n
    /\ pc' = "done"
    /\ UNCHANGED <<n, index, entry, number, ret>>

Next ==
    \/ NextEntry
    \/ Unsupported
    \/ DispatchBook
    \/ DispatchArticle
    \/ DispatchNewsArticle
    \/ EndOfEntries

Spec == Init /\ [][Next]_vars

(***************************************************************************)
(* One formatter call on one entry, the entry drawn from a wider set: the  *)
(* loop with a database of one entry, starting where the entry is bound.   *)
(***************************************************************************)
InitCall ==
    /\ pc = "body"
    /\ n = 1
    /\ index = 1
    /\ entry \in CallInputs
    /\ number = 0
    /\ ret = NoCall

NextCall ==
    \/ DispatchBook
    \/ DispatchArticle
    \/ DispatchNewsArticle
    \/ EndOfEntries

SpecCall == InitCall /\ [][NextCall]_vars

\* The loop of a sequential program takes its next step whenever it has one.
SpecLive == Init /\ [][Next]_vars /\ WF_vars(Next)

(***************************************************************************)
(* One call of a derivation helper on an argument drawn from a bounded set *)
(***************************************************************************)
VolumeIssueInputs ==
    {[volume |-> v, issue |-> i] :
        v \in {<<"5">>, <<"1","0">>, PH_VOLUME},
        i \in {<<"2">>, <<"0">>, <<>>, PH_ISSUE, <<"I","S","S","U","E">>}}

WrittenDateFields == {"year", "month", "day", "pages"}

WrittenDateValues ==
    [f \in WrittenDateFields |->
        CASE f = "year" -> {<<"2","0","2","0">>, <<>>}
          [] f = "month" -> {<<"J","A","N">>, <<"j","a","n">>, <<"F","e","b">>,
                             <<"d","e","c">>, <<"x","y","z">>,
                             <<"J","a","n","u","a","r","y">>, <<>>}
          [] f = "day" -> {<<"1">>, <<"2">>, <<"3">>, <<"4">>, <<"1","1">>, <<"1","2">>,
                           <<"1","3">>, <<"2","2">>, <<" ","7">>, <<"-","2">>, <<"x">>,
                           <<>>}
          [] f = "pages" -> {<<"1","-","2">>}]

WrittenDateInputs ==
    DictsOver(WrittenDateFields, WrittenDateValues, Cardinality(WrittenDateFields))

InitHelpers ==
    /\ n = 0
    /\ index = 0
    /\ ret = NoCall
    /\ \/ pc = "get_number_order_label" /\ number \in 0..MaxNumber /\ entry = Unbound
       \/ pc = "get_volume_issue_label" /\ number = 0 /\ entry \in VolumeIssueInputs
       \/ pc = "get_written_date_label" /\ number = 0 /\ entry \in WrittenDateInputs

CallNumberOrderLabel ==
    /\ pc = "get_number_order_label"
    /\ ret' = [NoCall EXCEPT !.called = "get_number_order_label",
                             !.label = get_number_order_label(number)]
    /\ pc' = "returned"
    /\ UNCHANGED <<n, index, entry, number>>

CallVolumeIssueLabel ==
    /\ pc = "get_volume_issue_label"
    /\ ret' = [NoCall EXCEPT !.called = "get_volume_issue_label",
                             !.label = get_volume_issue_label(entry)]
    /\ pc' = "returned"
    /\ UNCHANGED <<n, index, entry, number>>

CallWrittenDateLabel ==
    /\ pc = "get_written_date_label"
    /\ LET r == get_written_date_label(entry, PH_WRITTEN_DATE)
       IN  ret' = [NoCall EXCEPT !.called = "get_written_date_label",
                                 !.exc = r.exc, !.label = r.val]
    /\ pc' = "returned"
    /\ UNCHANGED <<n, index, entry, number>>

NextHelpers ==
    \/ CallNumberOrderLabel
    \/ CallVolumeIssueLabel
    \/ CallWrittenDateLabel

SpecHelpers == InitHelpers /\ [][NextHelpers]_vars

(***************************************************************************)
(* Properties                                                              *)
(***************************************************************************)
EndsWith(s, t) == Len(s) >= Len(t) /\ SubSeq(s, Len(s) - Len(t) + 1, Len(s)) = t

SeededJournal(e) == IF "journal" \in DOMAIN e THEN e["journal"] ELSE PH_JOURNAL

PublishedLabel(fe) == append_first_page(Substitute(PublishedTemplate, fe), fe)

OnlineLabel(fe) == Substitute(OnlineTemplate, fe)

\* the outcome the three-way rule prescribes for the entry just formatted
ThreeWayOutcome ==
    IF SeededJournal(entry) # PH_JOURNAL
    THEN ret.exc = "" /\ ret.label = PublishedLabel(ret.format_entry)
    ELSE IF "url" \in DOMAIN entry
    THEN ret.exc = "" /\ ret.label = OnlineLabel(ret.format_entry)
    ELSE ret.exc = NotImplemented /\ ret.label = <<>> /\ ret.printed = <<>>

DatesDerive(e) ==
    /\ get_written_date_label(e, PH_WRITTEN_DATE).exc = ""
    /\ get_access_date_label(e, PH_ACCESS_DATE).exc = ""

\* C1 as stated: every call of format_article_entry ends in the published citation
\* when the seeded journal is not '<JOURNAL>', else in the online citation when the
\* entry has a 'url', else in the 'Not implemented' error.
C1_ThreeWayForEveryEntry ==
    ret.called = "format_article_entry" => ThreeWayOutcome

\* C1 amended: the three-way rule decides the outcome of every call of
\* format_article_entry whose written-date and access-date labels derive without
\* error; the date labels are derived before the branch is taken, and a call
\* whose date labels do not derive raises ValueError or KeyError.
C1_ThreeWayWhenDatesDerive ==
    ret.called = "format_article_entry" =>
        IF DatesDerive(entry) THEN ThreeWayOutcome
        ELSE ret.exc \in {"ValueError", "KeyError"} /\ ret.label = <<>>

\* a published citation returned for an entry that also has a 'url'
C1_Witness ==
    /\ ret.called = "format_article_entry"
    /\ ret.exc = ""
    /\ SeededJournal(entry) # PH_JOURNAL
    /\ "url" \in DOMAIN entry
    /\ ret.label = PublishedLabel(ret.format_entry)
    /\ ret.label # OnlineLabel(ret.format_entry)

DefaultKeys(called) ==
    IF called = "format_news_article_entry" THEN DOMAIN NewsArticleDefaults
    ELSE IF called = "format_article_entry" THEN DOMAIN ArticleDefaults
    ELSE DOMAIN BookDefaults

ReferencedKeys(called) ==
    IF called = "format_news_article_entry" THEN TemplateKeys(NewsArticleTemplate)
    ELSE IF called = "format_article_entry"
    THEN TemplateKeys(PublishedTemplate) \cup TemplateKeys(OnlineTemplate)
    ELSE TemplateKeys(BookTemplate)

\* C2: whenever one of the three formatters reaches str.format, format_entry holds
\* every key of the formatter's default set and every key its template references,
\* and str.format raises no KeyError.
C2_KeysPresentAtRender ==
    ret.rendered =>
        /\ DefaultKeys(ret.called) \subseteq DOMAIN ret.format_entry
        /\ ReferencedKeys(ret.called) \subseteq DOMAIN ret.format_entry
        /\ ret.exc # "KeyError"

\* a book entry with no field at all is rendered from the placeholders alone
C2_Witness ==
    /\ ret.called = "format_book_entry"
    /\ ret.rendered
    /\ DOMAIN entry = {"ENTRYTYPE"}
    /\ ret.format_entry["author"] = PH_AUTHOR

\* C3: a formatter call, whether it returns or raises, leaves the dict it was given
\* with the same keys and values.
C3_InputNotMutated ==
    [][pc = "body" => entry' = entry]_vars

\* a call that raised and a dict with fields the formatter seeds
C3_Witness ==
    /\ ret.called = "format_article_entry"
    /\ ret.exc = "ValueError"
    /\ {"author", "journal"} \subseteq DOMAIN entry
    /\ ret.arg = entry

CallbackName(tag) ==
    IF tag = BookTag THEN "format_book_entry"
    ELSE IF tag = ArticleTag THEN "format_article_entry"
    ELSE "format_news_article_entry"

StrictIsoDate(s) ==
    /\ Len(s) = 10
    /\ s[5] = "-" /\ s[8] = "-"
    /\ \A i \in {1, 2, 3, 4, 6, 7, 9, 10} : s[i] \in Digits
    /\ DigitsValue(SubSeq(s, 1, 4)) >= 1
    /\ DigitsValue(SubSeq(s, 6, 7)) \in 1..12
    /\ DigitsValue(SubSeq(s, 9, 10)) >= 1
    /\ DigitsValue(SubSeq(s, 9, 10))
          <= DaysInMonth(DigitsValue(SubSeq(s, 1, 4)), DigitsValue(SubSeq(s, 6, 7)))

UnknownMonth(e) ==
    "month" \in DOMAIN e /\ \A i \in 1..12 : MonthCodes[i] # upper(e["month"])

\* C5 as stated: an article entry with a 'urldate' that is not a strict YYYY-MM-DD
\* date, or with a 'month' that is none of the twelve codes, makes
\* format_article_entry raise and return no citation.
C5_BadDateAlwaysFails ==
    (/\ ret.called = "format_article_entry"
     /\ \/ "urldate" \in DOMAIN entry /\ ~StrictIsoDate(entry["urldate"])
        \/ UnknownMonth(entry))
    => (ret.exc # "" /\ ret.label = <<>>)

\* C5 amended: an article entry with a 'urldate' that strptime('%Y-%m-%d') rejects,
\* or with a 'year' and a 'month' that is none of the twelve codes, makes
\* format_article_entry raise ValueError or KeyError and return no citation,
\* whichever branch the entry would take.
C5_RejectedDateFails ==
    (/\ ret.called = "format_article_entry"
     /\ \/ "urldate" \in DOMAIN entry /\ parse_date(entry["urldate"]).exc # ""
        \/ "year" \in DOMAIN entry /\ UnknownMonth(entry))
    => (ret.exc \in {"ValueError", "KeyError"} /\ ret.label = <<>> /\ ret.printed = <<>>)

\* an entry of the published shape whose 'urldate' does not parse
C5_Witness ==
    /\ ret.called = "format_article_entry"
    /\ SeededJournal(entry) # PH_JOURNAL
    /\ "urldate" \in DOMAIN entry
    /\ parse_date(entry["urldate"]).exc # ""
    /\ ret.exc = "ValueError"
    /\ ret.label = <<>>

VolumeSlashIssue(e) == e["volume"] \o <<"/">> \o e["issue"]

\* C6 as stated: get_volume_issue_label returns '{volume}/{issue}' whenever 'issue'
\* is not '<ISSUE>', and 'volume' alone only when 'issue' is '<ISSUE>'.
C6_SlashUnlessSentinel ==
    ret.called = "get_volume_issue_label" =>
        /\ entry["issue"] # PH_ISSUE => ret.label = VolumeSlashIssue(entry)
        /\ entry["issue"] = PH_ISSUE => ret.label = entry["volume"]

\* C6 amended: get_volume_issue_label returns '{volume}/{issue}' whenever 'issue' is
\* neither '<ISSUE>' nor the empty string, and 'volume' alone when it is either.
C6_SlashUnlessSentinelOrEmpty ==
    ret.called = "get_volume_issue_label" =>
        /\ entry["issue"] \notin {PH_ISSUE, <<>>} => ret.label = VolumeSlashIssue(entry)
        /\ entry["issue"] \in {PH_ISSUE, <<>>} => ret.label = entry["volume"]

\* the volume alone for an empty issue
C6_Witness ==
    /\ ret.called = "get_volume_issue_label"
    /\ entry["issue"] = <<>>
    /\ ret.label = entry["volume"]
    /\ ret.label # VolumeSlashIssue(entry)

DayAndMonthValid(e) ==
    /\ "day" \in DOMAIN e => int(e["day"]).exc = ""
    /\ ~UnknownMonth(e)

\* the day ordinal iff 'day' is present, the month name iff 'month' is present, and
\* the year iff with_year
WrittenParts(e, with_year) ==
    (IF "day" \in DOMAIN e THEN <<get_number_order_label(int(e["day"]).val)>> ELSE <<>>)
    \o (IF "month" \in DOMAIN e
        THEN <<MonthNames[latex_month_label_to_index(e["month"]).val]>> ELSE <<>>)
    \o (IF with_year THEN <<e["year"]>> ELSE <<>>)

\* C7 as stated: get_written_date_label returns the default exactly when the entry
\* has no 'year'; with a 'year' (and valid 'day' and 'month') it returns the parts
\* joined by spaces, the year always among them.
C7_YearAlwaysIncluded ==
    ret.called = "get_written_date_label" =>
        /\ "year" \notin DOMAIN entry => (ret.exc = "" /\ ret.label = PH_WRITTEN_DATE)
        /\ ("year" \in DOMAIN entry /\ DayAndMonthValid(entry)) =>
              /\ ret.exc = ""
              /\ ret.label = Join(WrittenParts(entry, TRUE), <<" ">>)
              /\ ret.label # PH_WRITTEN_DATE

\* C7 amended: get_written_date_label returns the default when the entry has no
\* 'year', and when 'year' is the empty string and neither 'day' nor 'month' is
\* present; otherwise (valid 'day' and 'month') it returns, joined by spaces in
\* day-month-year order, the day ordinal iff 'day' is present, the month name iff
\* 'month' is present, and the year iff it is not the empty string.
C7_YearIncludedWhenNotEmpty ==
    ret.called = "get_written_date_label" =>
        /\ "year" \notin DOMAIN entry => (ret.exc = "" /\ ret.label = PH_WRITTEN_DATE)
        /\ ("year" \in DOMAIN entry /\ DayAndMonthValid(entry)) =>
              LET parts == WrittenParts(entry, entry["year"] # <<>>)
              IN  /\ ret.exc = ""
                  /\ ret.label = IF parts = <<>> THEN PH_WRITTEN_DATE
                                 ELSE Join(parts, <<" ">>)

\* an empty 'year' beside a day: the label is the day ordinal alone
C7_Witness ==
    /\ ret.called = "get_written_date_label"
    /\ "year" \in DOMAIN entry /\ entry["year"] = <<>>
    /\ "day" \in DOMAIN entry /\ "month" \notin DOMAIN entry
    /\ ret.exc = ""
    /\ ret.label = <<"3","r","d">>

\* C8: get_number_order_label(11), (12) and (13) return '11th', '12th' and '13th'.
C8_TeensTakeTh ==
    ret.called = "get_number_order_label" =>
        /\ number = 11 => ret.label = <<"1","1","t","h">>
        /\ number = 12 => ret.label = <<"1","2","t","h">>
        /\ number = 13 => ret.label = <<"1","3","t","h">>

EditionAccepted(e) == "edition" \in DOMAIN e => int(e["edition"]).exc = ""

\* pages of the form digits-digits
IsPageRange(pages) ==
    LET parts == Split(pages, "-")
    IN  Len(parts) = 2 /\ AllDigits(parts[1]) /\ AllDigits(parts[2])

C10_NewsArticleHasNoPage ==
    ret.called = "format_news_article_entry" =>
        /\ ret.format_entry["first-page"] = PH_FIRST_PAGE
        /\ ret.exc = "" =>
              EndsWith(ret.label, ret.format_entry["written-date-label"] \o <<")", ".">>)

\* a citation returned for a news article that carries pages 45-60
C10_Witness ==
    /\ ret.called = "format_news_article_entry"
    /\ ret.exc = ""
    /\ "pages" \in DOMAIN entry
    /\ entry["pages"] = <<"4","5","-","6","0">>
    /\ EndsWith(ret.label, <<")", ".">>)

====
